---- MODULE Spec2Model ----
(***************************************************************************)
(* A model of the per-connection request/response loop of BasicHttpServer  *)
(* (src/src/basic_http_server.rs): incremental head parsing over a growing *)
(* buffer, routing, Content-Length body draining into a file, response     *)
(* serialization and the keep-alive / close decision.                      *)
(*                                                                         *)
(* Bytes are one-character strings.  A connection's peer follows a script  *)
(* of requests and may close at any moment.  A socket read returns the     *)
(* next n >= 1 bytes of the peer's stream, for any n: the bytes the peer   *)
(* had sent by then (a read that leaves sent bytes behind sees what a peer *)
(* that had sent fewer would show it).  A read that ends inside a later    *)
(* request is a peer that pipelines; a peer that waits for each response   *)
(* never has a read cross a request boundary.                              *)
(***************************************************************************)
EXTENDS Integers, Sequences, FiniteSets, TLC

\* ------------------------------------------------------------------ bytes

CR == "\r"
LF == "\n"
SP == " "
HTAB == "\t"
NUL == "0x00"
CRLF == <<CR, LF>>

Min(a, b) == IF a < b THEN a ELSE b

Concat(ss) ==
    LET RECURSIVE Cat(_)
        Cat(i) == IF i > Len(ss) THEN <<>> ELSE ss[i] \o Cat(i + 1)
    IN Cat(1)

\* u8::to_ascii_lowercase: 'A'..='Z' go to 'a'..='z', other bytes stay
UpperLetters ==
    <<"A", "B", "C", "D", "E", "F", "G", "H", "I", "J", "K", "L", "M",
      "N", "O", "P", "Q", "R", "S", "T", "U", "V", "W", "X", "Y", "Z">>
LowerLetters ==
    <<"a", "b", "c", "d", "e", "f", "g", "h", "i", "j", "k", "l", "m",
      "n", "o", "p", "q", "r", "s", "t", "u", "v", "w", "x", "y", "z">>
UpperSet == {UpperLetters[i] : i \in 1..26}
LowerByte(b) ==
    IF b \in UpperSet
    THEN LowerLetters[CHOOSE i \in 1..26 : UpperLetters[i] = b]
    ELSE b

\* str::to_ascii_lowercase
to_ascii_lowercase(s) == [i \in 1..Len(s) |-> LowerByte(s[i])]

\* str::eq_ignore_ascii_case
eq_ignore_ascii_case(a, b) == to_ascii_lowercase(a) = to_ascii_lowercase(b)

\* str::starts_with
starts_with(s, p) == Len(s) >= Len(p) /\ SubSeq(s, 1, Len(p)) = p

\* str::contains
contains(s, p) == \E i \in 0..(Len(s) - Len(p)) : SubSeq(s, i + 1, i + Len(p)) = p

Digits == <<"0", "1", "2", "3", "4", "5", "6", "7", "8", "9">>
IsDigit(b) == \E d \in 1..10 : Digits[d] = b
DigitVal(b) == (CHOOSE d \in 1..10 : Digits[d] = b) - 1

\* the words of the protocol, as bytes
W_GET == <<"G", "E", "T">>
W_POST == <<"P", "O", "S", "T">>
W_HTTP1 == <<"H", "T", "T", "P", "/", "1", ".">>
W_connection == <<"c", "o", "n", "n", "e", "c", "t", "i", "o", "n">>
W_close == <<"c", "l", "o", "s", "e">>
W_user_agent == <<"u", "s", "e", "r", "-", "a", "g", "e", "n", "t">>
W_accept_encoding ==
    <<"a", "c", "c", "e", "p", "t", "-", "e", "n", "c", "o", "d", "i", "n", "g">>
W_content_length ==
    <<"c", "o", "n", "t", "e", "n", "t", "-", "l", "e", "n", "g", "t", "h">>
W_content_type == <<"c", "o", "n", "t", "e", "n", "t", "-", "t", "y", "p", "e">>
W_content_encoding ==
    <<"c", "o", "n", "t", "e", "n", "t", "-", "e", "n", "c", "o", "d", "i", "n", "g">>
W_gzip == <<"g", "z", "i", "p">>
W_text_plain == <<"t", "e", "x", "t", "/", "p", "l", "a", "i", "n">>
W_octet_stream ==
    <<"a", "p", "p", "l", "i", "c", "a", "t", "i", "o", "n", "/",
      "o", "c", "t", "e", "t", "-", "s", "t", "r", "e", "a", "m">>
P_root == <<"/">>
P_echo == <<"/", "e", "c", "h", "o">>
P_user_agent == <<"/", "u", "s", "e", "r", "-", "a", "g", "e", "n", "t">>
P_files == <<"/", "f", "i", "l", "e", "s">>

\* ------------------------------------------------- the head scanner (httparse)

\* httparse::EMPTY_HEADER; 16
MaxHeaders == 16

\* bytes that end a token (method, header name)
IsToken(b) ==
    b \notin {SP, HTAB, CR, LF, NUL, ":", "/", "(", ")", ",", ";", "<", "=", ">",
              "?", "@", "[", "]", "{", "}"}
\* bytes of a request target
IsUri(b) == b \notin {SP, HTAB, CR, LF, NUL}
\* bytes of a header value
IsValueByte(b) == b \notin {CR, LF, NUL}
IsOWS(b) == b \in {SP, HTAB}

InClass(class, b) ==
    CASE class = "token" -> IsToken(b)
      [] class = "uri" -> IsUri(b)
      [] class = "value" -> IsValueByte(b)
      [] class = "ows" -> IsOWS(b)

\* the first index >= from whose byte is not of the class, Len(buf) + 1 when
\* there is none
FirstNot(buf, from, class) ==
    LET S == {i \in from..Len(buf) : ~InClass(class, buf[i])}
    IN IF S = {} THEN Len(buf) + 1 ELSE CHOOSE i \in S : \A j \in S : i <= j

Partial == [status |-> "Partial"]
ScanError == [status |-> "Error"]

RECURSIVE ParseHeaders(_, _, _, _, _)
\* httparse's header loop: name ":" OWS value CRLF, ended by an empty line
ParseHeaders(buf, pos, method, path, acc) ==
    LET n == Len(buf) IN
    IF pos > n THEN Partial
    ELSE IF buf[pos] = CR THEN
        IF pos + 1 > n THEN Partial
        ELSE IF buf[pos + 1] # LF THEN ScanError
        ELSE [status |-> "Complete", offset |-> pos + 1,
              method |-> method, path |-> path, headers |-> acc]
    ELSE
        LET c == FirstNot(buf, pos, "token") IN
        IF c > n THEN Partial
        ELSE IF buf[c] # ":" \/ c = pos THEN ScanError
        ELSE
            LET v == FirstNot(buf, c + 1, "ows")
                e == FirstNot(buf, v, "value")
            IN
            IF e > n THEN Partial
            ELSE IF buf[e] # CR THEN ScanError
            ELSE IF e + 1 > n THEN Partial
            ELSE IF buf[e + 1] # LF THEN ScanError
            ELSE IF Len(acc) = MaxHeaders THEN ScanError
            ELSE ParseHeaders(buf, e + 2, method, path,
                              Append(acc, [name |-> SubSeq(buf, pos, c - 1),
                                           value |-> SubSeq(buf, v, e - 1)]))

\* httparse::Request::parse: Partial until the head is complete, an error at
\* the first byte that cannot continue a head, Complete(offset) otherwise.
\* offset counts the bytes of the head, so the body starts at buf[offset + 1].
ParseHead(buf) ==
    LET n == Len(buf)
        m == FirstNot(buf, 1, "token")
    IN
    IF m > n THEN Partial
    ELSE IF buf[m] # SP \/ m = 1 THEN ScanError
    ELSE
        LET p == FirstNot(buf, m + 1, "uri") IN
        IF p > n THEN Partial
        ELSE IF buf[p] # SP \/ p = m + 1 THEN ScanError
        ELSE
            LET k == Min(n - p, 7) IN
            IF SubSeq(buf, p + 1, p + k) # SubSeq(W_HTTP1, 1, k) THEN ScanError
            ELSE IF n < p + 8 THEN Partial
            ELSE IF buf[p + 8] \notin {"0", "1"} THEN ScanError
            ELSE IF n < p + 9 THEN Partial
            ELSE IF buf[p + 9] # CR THEN ScanError
            ELSE IF n < p + 10 THEN Partial
            ELSE IF buf[p + 10] # LF THEN ScanError
            ELSE ParseHeaders(buf, p + 11, SubSeq(buf, 1, m - 1),
                              SubSeq(buf, m + 1, p - 1), <<>>)

\* ------------------------------------------------------------ parse_request

NoValue == [some |-> FALSE]
Some(v) == [some |-> TRUE, v |-> v]

\* fn parse_encoding
parse_encoding(encoding) ==
    IF contains(to_ascii_lowercase(encoding), W_gzip) THEN Some("Gzip") ELSE NoValue

\* str::parse::<usize>: an optional "+" and at least one digit
ParseUsize(s) ==
    LET d == IF Len(s) > 0 /\ s[1] = "+" THEN Tail(s) ELSE s
        RECURSIVE Val(_)
        Val(i) == IF i = 0 THEN 0 ELSE 10 * Val(i - 1) + DigitVal(d[i])
    IN IF Len(d) = 0 \/ \E i \in 1..Len(d) : ~IsDigit(d[i])
       THEN [ok |-> FALSE]
       ELSE [ok |-> TRUE, v |-> Val(Len(d))]

\* the headers of that name, in order
HeadersNamed(headers, name) ==
    SelectSeq(headers, LAMBDA h : eq_ignore_ascii_case(h.name, name))

Last(s) == s[Len(s)]

\* `close` after the header loop: the last Connection header decides
CloseFlag(headers) ==
    LET hs == HeadersNamed(headers, W_connection)
    IN Len(hs) > 0 /\ eq_ignore_ascii_case(Last(hs).value, W_close)

\* ParseGet with the first Accept-Encoding header deciding, not the last
ParseGetFirstEnc(head) ==
    LET uas == HeadersNamed(head.headers, W_user_agent)
        encs == HeadersNamed(head.headers, W_accept_encoding)
    IN [tag |-> "Get",
        close |-> CloseFlag(head.headers),
        path |-> head.path,
        ua |-> IF Len(uas) > 0 THEN Some(Last(uas).value) ELSE NoValue,
        encoding |-> IF Len(encs) > 0 THEN parse_encoding(encs[1].value)
                     ELSE NoValue]

\* the Some("GET") arm
ParseGet(head) ==
    LET uas == HeadersNamed(head.headers, W_user_agent)
        encs == HeadersNamed(head.headers, W_accept_encoding)
    IN [tag |-> "Get",
        close |-> CloseFlag(head.headers),
        path |-> head.path,
        ua |-> IF Len(uas) > 0 THEN Some(Last(uas).value) ELSE NoValue,
        encoding |-> IF Len(encs) > 0 THEN parse_encoding(Last(encs).value)
                     ELSE NoValue]

\* the Some("POST") arm: every Content-Length value goes through parse()?
ParsePost(head) ==
    LET cls == HeadersNamed(head.headers, W_content_length)
    IN IF \E i \in 1..Len(cls) : ~ParseUsize(cls[i].value).ok
       THEN [tag |-> "Err"]
       ELSE [tag |-> "Post",
             close |-> CloseFlag(head.headers),
             path |-> head.path,
             body_offset |-> head.offset,
             body_len |-> IF Len(cls) > 0 THEN ParseUsize(Last(cls).value).v ELSE 0]

\* fn parse_request: Ok(None) is tag "None", Err(_) is tag "Err"
parse_request(buf) ==
    LET head == ParseHead(buf) IN
    IF head.status = "Error" THEN [tag |-> "Err"]
    ELSE IF head.status = "Partial" THEN [tag |-> "None"]
    ELSE IF head.method = W_GET THEN ParseGet(head)
    ELSE IF head.method = W_POST THEN ParsePost(head)
    ELSE [tag |-> "Err"]

\* ------------------------------------------------------------- responses

\* usize's Display: decimal digits, most significant first
RECURSIVE ToDecimal(_)
ToDecimal(n) ==
    IF n < 10 THEN <<Digits[n + 1]>>
    ELSE Append(ToDecimal(n \div 10), Digits[(n % 10) + 1])

\* response200 with the length of the content type in Content-length
response200WrongLen(body, cont_type, encoding) ==
    [status |-> 200,
     headers |-> <<[name |-> W_content_length, value |-> ToDecimal(Len(cont_type))],
                   [name |-> W_content_type, value |-> cont_type]>>
                 \o (IF encoding.some
                     THEN <<[name |-> W_content_encoding, value |-> W_gzip]>>
                     ELSE <<>>),
     body |-> body]

\* fn response200
response200(body, cont_type, encoding) ==
    [status |-> 200,
     headers |-> <<[name |-> W_content_length, value |-> ToDecimal(Len(body))],
                   [name |-> W_content_type, value |-> cont_type]>>
                 \o (IF encoding.some
                     THEN <<[name |-> W_content_encoding, value |-> W_gzip]>>
                     ELSE <<>>),
     body |-> body]

\* fn response200pt
response200pt(body, encoding) == response200(body, W_text_plain, encoding)

\* fn response200bin
response200bin(body) == response200(body, W_octet_stream, NoValue)

\* fn response201
response201 ==
    [status |-> 201,
     headers |-> <<[name |-> W_content_length, value |-> <<"0">>]>>,
     body |-> <<>>]

\* fn response404
response404 ==
    [status |-> 404,
     headers |-> <<[name |-> W_content_length, value |-> <<"0">>]>>,
     body |-> <<>>]

\* http::StatusCode::canonical_reason
canonical_reason(status) ==
    CASE status = 200 -> <<"O", "K">>
      [] status = 201 -> <<"C", "r", "e", "a", "t", "e", "d">>
      [] status = 404 -> <<"N", "o", "t", " ", "F", "o", "u", "n", "d">>
      [] OTHER -> <<>>

\* fn serialize_response: status line, the headers in insertion order, an
\* empty line, the body
serialize_response(resp) ==
    W_HTTP1 \o <<"1", SP>> \o ToDecimal(resp.status) \o <<SP>>
      \o canonical_reason(resp.status) \o CRLF
      \o Concat([i \in 1..Len(resp.headers) |->
                   resp.headers[i].name \o <<":", SP>> \o resp.headers[i].value \o CRLF])
      \o CRLF
      \o resp.body

\* --------------------------------------------------------------- the files

\* format!("{dir}{path}") names the base directory itself when path is "" or "/"
IsDir(name) == name \in {<<>>, <<"/">>}

\* read_file that reads a missing file or a directory as empty
read_fileLenient(files, name) ==
    IF ~IsDir(name) /\ name \in DOMAIN files
    THEN [ok |-> TRUE, v |-> files[name]]
    ELSE [ok |-> TRUE, v |-> <<>>]

\* fn read_file: File::open and read_to_end; fails on a missing file and on a
\* directory
read_file(files, name) ==
    IF ~IsDir(name) /\ name \in DOMAIN files
    THEN [ok |-> TRUE, v |-> files[name]]
    ELSE [ok |-> FALSE]

\* WriteAt that forgets the handle's offset and writes at the start
WriteAtStart(data, pos, bytes) ==
    [i \in 1..(IF Len(bytes) > Len(data) THEN Len(bytes) ELSE Len(data)) |->
       IF i <= Len(bytes) THEN bytes[i] ELSE data[i]]

\* WriteAt on a handle opened for appending: every write goes to the end
WriteAtAppend(data, pos, bytes) == data \o bytes

\* File::write_all at the handle's offset; a gap left by another handle's
\* truncation reads as zero bytes
WriteAt(data, pos, bytes) ==
    LET end == pos + Len(bytes)
        len == IF end > Len(data) THEN end ELSE Len(data)
    IN [i \in 1..len |->
          IF i > pos /\ i <= end THEN bytes[i - pos]
          ELSE IF i <= Len(data) THEN data[i]
          ELSE NUL]

\* &path[6..]: a slice from byte 6 panics on a shorter string
CanSlice6(path) == Len(path) >= 6
\* the slice taken one byte early, &path[5..]
Slice5(path) == SubSeq(path, 6, Len(path))
Slice6(path) == SubSeq(path, 7, Len(path))

\* the ParseResult::Get arm of handle_request: a response, or a panic
RouteGet(files, req) ==
    IF req.path = P_root
    THEN [panic |-> FALSE, resp |-> response200pt(<<>>, req.encoding)]
    ELSE IF starts_with(to_ascii_lowercase(req.path), P_echo)
    THEN IF CanSlice6(req.path)
         THEN [panic |-> FALSE, resp |-> response200pt(Slice6(req.path), req.encoding)]
         ELSE [panic |-> TRUE]
    ELSE IF to_ascii_lowercase(req.path) = P_user_agent
    THEN [panic |-> FALSE,
          resp |-> response200pt(IF req.ua.some THEN req.ua.v ELSE <<>>, req.encoding)]
    ELSE IF starts_with(to_ascii_lowercase(req.path), P_files)
    THEN LET contents == read_file(files, Slice6(req.path))
         IN [panic |-> FALSE,
             resp |-> IF contents.ok THEN response200bin(contents.v) ELSE response404]
    ELSE [panic |-> FALSE, resp |-> response404]

\* ---------------------------------------------------------------- the peers

Req(m, p, h, b) == [m |-> m, p |-> p, h |-> h, b |-> b]
Hdr(n, v) == [name |-> n, value |-> v]

\* the bytes of a request as a client puts them on the wire
Wire(r) ==
    r.m \o <<SP>> \o r.p \o <<SP>> \o W_HTTP1 \o <<"1">> \o CRLF
      \o Concat([i \in 1..Len(r.h) |->
                   r.h[i].name \o <<":", SP>> \o r.h[i].value \o CRLF])
      \o CRLF
      \o r.b

H_Connection == <<"C", "o", "n", "n", "e", "c", "t", "i", "o", "n">>
H_CONNECTION == <<"C", "O", "N", "N", "E", "C", "T", "I", "O", "N">>
H_UserAgent == <<"U", "s", "e", "r", "-", "A", "g", "e", "n", "t">>
H_AcceptEncoding ==
    <<"A", "c", "c", "e", "p", "t", "-", "E", "n", "c", "o", "d", "i", "n", "g">>
H_ContentLength ==
    <<"C", "o", "n", "t", "e", "n", "t", "-", "L", "e", "n", "g", "t", "h">>
V_Close == <<"C", "l", "o", "s", "e">>
V_keep_alive == <<"k", "e", "e", "p", "-", "a", "l", "i", "v", "e">>
V_agent == <<"f", "/", "1">>
V_GZip == <<"x", ",", "G", "Z", "i", "p">>
W_DELETE == <<"D", "E", "L", "E", "T", "E">>
W_badtoken == <<"G", "(", "T">>
P_echo_ab == <<"/", "e", "c", "h", "o", "/", "a", "b">>
P_ECHO_a_b == <<"/", "E", "C", "H", "O", "/", "a", "/", "b">>
P_echo_empty == <<"/", "e", "c", "h", "o", "/">>
P_echo_bare == <<"/", "e", "c", "h", "o">>
P_files_f == <<"/", "f", "i", "l", "e", "s", "/", "f">>
P_files_g == <<"/", "f", "i", "l", "e", "s", "/", "g">>
P_files_dir == <<"/", "f", "i", "l", "e", "s", "/">>
P_other == <<"/", "z">>
P_echoXab == <<"/", "e", "c", "h", "o", "X", "a", "b">>
P_posts_g == <<"/", "p", "o", "s", "t", "s", "/", "g">>
V_gzip_q == <<"g", "z", "i", "p", ";", "q", "=", "1">>
V_identity == <<"i", "d", "e", "n", "t", "i", "t", "y">>
V_minus1 == <<"-", "1">>
B_xyz == <<"x", "y", "z">>
B_Pq == <<"P", "q">>

\* what each peer sends, request after request
Script(s) ==
    CASE s = 1 -> <<Req(W_GET, P_root, <<>>, <<>>), Req(W_GET, P_echo_ab, <<>>, <<>>)>>
      [] s = 2 -> <<Req(W_GET, P_echo_ab, <<Hdr(H_Connection, W_close)>>, <<>>),
                    Req(W_GET, P_root, <<>>, <<>>)>>
      [] s = 3 -> <<Req(W_GET, P_ECHO_a_b, <<Hdr(H_AcceptEncoding, V_GZip)>>, <<>>)>>
      [] s = 4 -> <<Req(W_GET, P_echo_empty, <<Hdr(H_CONNECTION, V_Close)>>, <<>>)>>
      [] s = 5 -> <<Req(W_GET, P_user_agent, <<Hdr(H_UserAgent, V_agent)>>, <<>>),
                    Req(W_GET, P_user_agent, <<>>, <<>>)>>
      [] s = 6 -> <<Req(W_POST, P_files_f, <<Hdr(H_ContentLength, <<"3">>)>>, B_xyz),
                    Req(W_GET, P_files_f, <<Hdr(H_AcceptEncoding, W_gzip)>>, <<>>)>>
      [] s = 7 -> <<Req(W_GET, P_files_g, <<>>, <<>>),
                    Req(W_GET, P_files_dir, <<Hdr(H_Connection, W_close)>>, <<>>)>>
      [] s = 8 -> <<Req(W_DELETE, P_root, <<>>, <<>>)>>
      [] s = 9 -> <<Req(W_GET, P_root, <<>>, <<>>), Req(W_badtoken, P_root, <<>>, <<>>)>>
      [] s = 10 -> <<Req(W_POST, P_files_dir, <<Hdr(H_ContentLength, <<"1">>)>>, <<"x">>)>>
      [] s = 11 -> <<Req(W_POST, P_files_g,
                         <<Hdr(H_ContentLength, <<"2">>), Hdr(H_Connection, W_close)>>,
                         B_Pq)>>
      [] s = 12 -> <<Req(W_POST, P_other, <<>>, <<>>)>>
      [] s = 13 -> <<Req(W_GET, P_echo_bare, <<>>, <<>>)>>
      [] s = 14 -> <<Req(W_GET, P_root,
                         <<Hdr(H_Connection, W_close), Hdr(H_Connection, V_keep_alive)>>,
                         <<>>),
                     Req(W_GET, P_other, <<>>, <<>>)>>
      [] s = 15 -> <<Req(W_GET, P_echoXab, <<>>, <<>>)>>
      [] s = 16 -> <<Req(W_POST, P_posts_g, <<Hdr(H_ContentLength, <<"1">>)>>, <<"x">>)>>
      [] s = 17 -> <<Req(W_POST, P_files_f,
                         <<Hdr(H_ContentLength, <<"1">>), Hdr(H_AcceptEncoding, W_gzip)>>,
                         <<"x">>)>>
      [] s = 18 -> <<Req(W_GET, P_echo_ab,
                         <<Hdr(H_AcceptEncoding, V_gzip_q),
                           Hdr(H_AcceptEncoding, V_identity)>>,
                         <<>>)>>
      [] s = 19 -> <<Req(W_POST, P_files_f, <<Hdr(H_ContentLength, V_minus1)>>, <<>>)>>
      [] s = 20 -> <<Req(W_POST, P_files_g, <<>>, <<>>)>>
      [] s = 21 -> <<Req(W_POST, P_files_f, <<Hdr(H_ContentLength, <<"2">>)>>, B_Pq)>>
      [] s = 22 -> <<Req(W_GET, P_other, <<Hdr(H_AcceptEncoding, W_gzip)>>, <<>>)>>
      [] s = 24 -> <<Req(W_GET, P_root, <<>>, <<>>)>>
      [] s = 23 -> <<Req(W_POST, P_files_f, <<Hdr(H_ContentLength, <<"3">>)>>, B_xyz)>>
      [] OTHER -> <<>>

SoloScripts == 1..22
Scripts == 0..24

\* all the bytes a peer ever sends
Streams == [s \in Scripts |-> Concat([i \in 1..Len(Script(s)) |-> Wire(Script(s)[i])])]
Stream(s) == Streams[s]

\* the offset in the stream at which request i begins
RECURSIVE ReqOffset(_, _)
ReqOffset(s, i) == IF i = 1 THEN 0 ELSE ReqOffset(s, i - 1) + Len(Wire(Script(s)[i - 1]))

\* ---------------------------------------------------------------- the state

Conns == {1, 2}

\* transport faults injected per connection, at most
MaxFaults == 1
\* zero-length reads counted in the drain loop, at most
MaxSpin == 2
\* bytes of a response that a failing write may still deliver, at most
MaxPartial == 1
\* std::cmp::min(content_len, 65536)
ChunkSize == 65536

VARIABLES
    scen,        \* the script each peer follows (0: the peer never connects)
    peerClosed,  \* the peer has shut its side down, having sent rd bytes
    rd,          \* bytes the server has taken off the wire
    pc,          \* where each connection task stands in handle_request
    buf,         \* buf: BytesMut of the current loop iteration
    parseRes,    \* parse_res
    resp,        \* resp
    closeCon,    \* close_con
    remaining,   \* content_len inside write_file; -k stands for 2^64 - k
    fname,       \* the path write_file created
    fpos,        \* the offset of write_file's file handle
    files,       \* the regular files under the base directory
    out,         \* one entry per write_all on the stream
    faults,      \* transport faults injected so far
    reqNo,       \* iterations of the outer loop entered
    reqStart,    \* the stream offset at which buf began
    zeroReads,   \* reads of 0 bytes made by the drain loop
    split,       \* parse_request has answered Ok(None) in this iteration
    ended        \* why the task returned

vars == <<scen, peerClosed, rd, pc, buf, parseRes, resp, closeCon, remaining,
          fname, fpos, files, out, faults, reqNo, reqStart, zeroReads, split, ended>>

peerVars == <<scen, peerClosed>>
fileVars == <<fname, fpos, files, remaining>>

None == [tag |-> "None"]
NoResp == [status |-> 0]

InitConn ==
    /\ peerClosed = [c \in Conns |-> FALSE]
    /\ rd = [c \in Conns |-> 0]
    /\ pc = [c \in Conns |-> "Unaccepted"]
    /\ buf = [c \in Conns |-> <<>>]
    /\ parseRes = [c \in Conns |-> None]
    /\ resp = [c \in Conns |-> NoResp]
    /\ closeCon = [c \in Conns |-> FALSE]
    /\ remaining = [c \in Conns |-> 0]
    /\ fname = [c \in Conns |-> <<>>]
    /\ fpos = [c \in Conns |-> 0]
    /\ files = <<>>
    /\ out = [c \in Conns |-> <<>>]
    /\ faults = [c \in Conns |-> 0]
    /\ reqNo = [c \in Conns |-> 0]
    /\ reqStart = [c \in Conns |-> 0]
    /\ zeroReads = [c \in Conns |-> 0]
    /\ split = [c \in Conns |-> FALSE]
    /\ ended = [c \in Conns |-> "running"]

\* one peer at a time: connection 1 follows any script, connection 2 stays away
Init ==
    /\ scen \in {f \in [Conns -> SoloScripts \cup {0}] : f[1] # 0 /\ f[2] = 0}
    /\ InitConn

Live(c) == pc[c] \notin {"Unaccepted", "Closed", "Panicked"}
Avail(c) == IF peerClosed[c] THEN 0 ELSE Len(Stream(scen[c])) - rd[c]
Taken(c, n) == SubSeq(Stream(scen[c]), rd[c] + 1, rd[c] + n)

\* the task returns (or unwinds): the stream is dropped
Return(c, why) ==
    /\ pc' = [pc EXCEPT ![c] = IF why = "panic" THEN "Panicked" ELSE "Closed"]
    /\ ended' = [ended EXCEPT ![c] = why]

\* ----------------------------------------------------------------- the peer

PeerClose(c) ==
    /\ Live(c) /\ ~peerClosed[c]
    /\ peerClosed' = [peerClosed EXCEPT ![c] = TRUE]
    /\ UNCHANGED <<scen, rd, pc, buf, parseRes, resp, closeCon, fileVars,
                   out, faults, reqNo, reqStart, zeroReads, ended, split>>

\* -------------------------------------------------------------- the server

\* run that awaits each handler before it accepts again
AcceptInTurn(c) ==
    /\ pc[c] = "Unaccepted" /\ scen[c] # 0
    /\ \A d \in Conns \ {c} : ~Live(d)
    /\ pc' = [pc EXCEPT ![c] = "Reading"]
    /\ reqNo' = [reqNo EXCEPT ![c] = 1]
    /\ UNCHANGED <<peerVars, rd, buf, parseRes, resp, closeCon, fileVars, out,
                   faults, reqStart, zeroReads, ended, split>>

\* run: accept, spawn handle_request; the task enters its loop with a fresh buf
Accept(c) ==
    /\ pc[c] = "Unaccepted" /\ scen[c] # 0
    /\ pc' = [pc EXCEPT ![c] = "Reading"]
    /\ reqNo' = [reqNo EXCEPT ![c] = 1]
    /\ UNCHANGED <<peerVars, rd, buf, parseRes, resp, closeCon, fileVars, out,
                   faults, reqStart, zeroReads, ended, split>>

\* AfterParse with the Err arm missing: a failed parse waits for more bytes
AfterParseNoErr(c, res) ==
    IF res.tag \in {"None", "Err"} THEN
        /\ split' = [split EXCEPT ![c] = TRUE]
        /\ UNCHANGED <<pc, ended, parseRes>>
    ELSE
        /\ pc' = [pc EXCEPT ![c] = "Dispatching"]
        /\ parseRes' = [parseRes EXCEPT ![c] = res]
        /\ UNCHANGED <<ended, split>>

\* what the inner loop does with parse_request's answer
AfterParse(c, res) ==
    IF res.tag = "None" THEN
        /\ split' = [split EXCEPT ![c] = TRUE]
        /\ UNCHANGED <<pc, ended, parseRes>>
    ELSE IF res.tag = "Err" THEN
        /\ Return(c, "parse")
        /\ UNCHANGED <<parseRes, split>>
    ELSE
        /\ pc' = [pc EXCEPT ![c] = "Dispatching"]
        /\ parseRes' = [parseRes EXCEPT ![c] = res]
        /\ UNCHANGED <<ended, split>>

\* ReadHead with a buffer that holds the last read only
ReadHeadLastOnly(c) ==
    /\ pc[c] = "Reading"
    /\ \E n \in 1..Avail(c) :
         LET grown == Taken(c, n) IN
         /\ buf' = [buf EXCEPT ![c] = grown]
         /\ rd' = [rd EXCEPT ![c] = @ + n]
         /\ AfterParse(c, parse_request(grown))
    /\ UNCHANGED <<peerVars, resp, closeCon, fileVars, out, faults, reqNo, reqStart,
                   zeroReads>>

\* stream.read_buf(&mut buf) returned Ok(n), n > 0; then parse_request(&buf)
ReadHead(c) ==
    /\ pc[c] = "Reading"
    /\ \E n \in 1..Avail(c) :
         LET grown == buf[c] \o Taken(c, n) IN
         /\ buf' = [buf EXCEPT ![c] = grown]
         /\ rd' = [rd EXCEPT ![c] = @ + n]
         /\ AfterParse(c, parse_request(grown))
    /\ UNCHANGED <<peerVars, resp, closeCon, fileVars, out, faults, reqNo, reqStart,
                   zeroReads>>

\* ReadEof that takes the end of the stream for a bad request and answers 404
ReadEofAnswers(c) ==
    /\ pc[c] = "Reading"
    /\ peerClosed[c]
    /\ resp' = [resp EXCEPT ![c] = response404]
    /\ closeCon' = [closeCon EXCEPT ![c] = TRUE]
    /\ pc' = [pc EXCEPT ![c] = "Writing"]
    /\ UNCHANGED <<peerVars, rd, buf, parseRes, fileVars, out, faults, reqNo, reqStart,
                   zeroReads, split, ended>>

\* stream.read_buf returned Ok(0): the peer closed and nothing is left to read
ReadEof(c) ==
    /\ pc[c] = "Reading"
    /\ peerClosed[c]
    /\ Return(c, "eof")
    /\ UNCHANGED <<peerVars, rd, buf, parseRes, resp, closeCon, fileVars, out, faults,
                   reqNo, reqStart, zeroReads, split>>

\* stream.read_buf returned Err
ReadErr(c) ==
    /\ pc[c] = "Reading"
    /\ faults[c] < MaxFaults
    /\ faults' = [faults EXCEPT ![c] = @ + 1]
    /\ Return(c, "readerr")
    /\ UNCHANGED <<peerVars, rd, buf, parseRes, resp, closeCon, fileVars, out,
                   reqNo, reqStart, zeroReads, split>>

\* the response is ready: on to write_all
Respond(c, r, close) ==
    /\ resp' = [resp EXCEPT ![c] = r]
    /\ closeCon' = [closeCon EXCEPT ![c] = close]
    /\ pc' = [pc EXCEPT ![c] = "Writing"]
    /\ UNCHANGED ended

\* the ParseResult::Get arm
DispatchGet(c) ==
    /\ pc[c] = "Dispatching" /\ parseRes[c].tag = "Get"
    /\ LET r == RouteGet(files, parseRes[c]) IN
       IF r.panic
       THEN Return(c, "panic") /\ UNCHANGED <<resp, closeCon>>
       ELSE Respond(c, r.resp, parseRes[c].close)
    /\ UNCHANGED <<peerVars, rd, buf, parseRes, fileVars, out, faults, reqNo,
                   reqStart, zeroReads, split>>

\* write_file after its prefix is written: content_len - content_prefix.len(),
\* then the loop test
StartDrain(c, left, close) ==
    /\ remaining' = [remaining EXCEPT ![c] = left]
    /\ IF left = 0
       THEN Respond(c, response201, close)
       ELSE pc' = [pc EXCEPT ![c] = "Draining"] /\ UNCHANGED <<resp, closeCon, ended>>

\* &buf[body_offset..]
ContentPrefix(c) == SubSeq(buf[c], parseRes[c].body_offset + 1, Len(buf[c]))

\* the ParseResult::Post arm up to File::create: &path[6..], then the file is
\* created, or emptied if it was there, and the handle stands at offset 0
DispatchPost(c) ==
    /\ pc[c] = "Dispatching" /\ parseRes[c].tag = "Post"
    /\ LET req == parseRes[c]
           name == Slice6(req.path)
       IN
       IF ~CanSlice6(req.path) THEN
           /\ Return(c, "panic")
           /\ UNCHANGED <<fname, fpos, files>>
       ELSE IF IsDir(name) THEN
           /\ Return(c, "post")
           /\ UNCHANGED <<fname, fpos, files>>
       ELSE
           /\ files' = (name :> <<>>) @@ files
           /\ fname' = [fname EXCEPT ![c] = name]
           /\ fpos' = [fpos EXCEPT ![c] = 0]
           /\ pc' = [pc EXCEPT ![c] = "Prefixing"]
           /\ UNCHANGED ended
    /\ UNCHANGED <<peerVars, rd, buf, parseRes, resp, closeCon, remaining, out, faults,
                   reqNo, reqStart, zeroReads, split>>

\* write_file from write_all(content_prefix) to its loop: the prefix goes to
\* the file, then content_len - content_prefix.len().  The subtraction of a
\* longer prefix panics in a build with overflow checks and wraps in one without.
WritePrefix(c) ==
    /\ pc[c] = "Prefixing"
    /\ LET content_prefix == ContentPrefix(c)
           left == parseRes[c].body_len - Len(content_prefix)
       IN
       /\ files' = [files EXCEPT ![fname[c]] = WriteAt(@, fpos[c], content_prefix)]
       /\ fpos' = [fpos EXCEPT ![c] = @ + Len(content_prefix)]
       /\ IF left >= 0
          THEN StartDrain(c, left, parseRes[c].close)
          ELSE \/ /\ Return(c, "panic")
                  /\ UNCHANGED <<resp, closeCon, remaining>>
               \/ StartDrain(c, left, parseRes[c].close)
    /\ UNCHANGED <<peerVars, rd, buf, parseRes, fname, out, faults, reqNo, reqStart,
                   zeroReads, split>>

\* the size of content_buf
ReadSize(left) == IF left < 0 THEN ChunkSize ELSE Min(left, ChunkSize)

\* one turn of write_file's loop in which stream.read returned n > 0 bytes
DrainRead(c) ==
    /\ pc[c] = "Draining"
    /\ \E n \in 1..Min(Avail(c), ReadSize(remaining[c])) :
         /\ files' = [files EXCEPT ![fname[c]] = WriteAt(@, fpos[c], Taken(c, n))]
         /\ fpos' = [fpos EXCEPT ![c] = @ + n]
         /\ rd' = [rd EXCEPT ![c] = @ + n]
         /\ remaining' = [remaining EXCEPT ![c] = @ - n]
         /\ IF remaining[c] - n = 0
            THEN Respond(c, response201, parseRes[c].close)
            ELSE UNCHANGED <<pc, resp, closeCon, ended>>
    /\ UNCHANGED <<peerVars, buf, parseRes, fname, out, faults, reqNo, reqStart,
                   zeroReads, split>>

\* one turn of write_file's loop in which stream.read returned 0 bytes: nothing
\* is written, content_len -= 0, and the loop test passes again
DrainZero(c) ==
    /\ pc[c] = "Draining"
    /\ peerClosed[c]
    /\ zeroReads[c] < MaxSpin
    /\ zeroReads' = [zeroReads EXCEPT ![c] = @ + 1]
    /\ UNCHANGED <<peerVars, rd, pc, buf, parseRes, resp, closeCon, fileVars, out,
                   faults, reqNo, reqStart, ended, split>>

\* stream.read returned Err inside write_file: the Err(e) arm of the Post arm
DrainErr(c) ==
    /\ pc[c] = "Draining"
    /\ faults[c] < MaxFaults
    /\ faults' = [faults EXCEPT ![c] = @ + 1]
    /\ Return(c, "post")
    /\ UNCHANGED <<peerVars, rd, buf, parseRes, resp, closeCon, fileVars, out,
                   reqNo, reqStart, zeroReads, split>>

\* AfterWrite without the close_con test: the loop always goes on
AfterWriteNoClose(c) ==
    /\ pc' = [pc EXCEPT ![c] = "Reading"]
    /\ buf' = [buf EXCEPT ![c] = <<>>]
    /\ reqNo' = [reqNo EXCEPT ![c] = @ + 1]
    /\ reqStart' = [reqStart EXCEPT ![c] = rd[c]]
    /\ split' = [split EXCEPT ![c] = FALSE]
    /\ UNCHANGED ended

\* after write_all, whatever it returned: return if close_con, else loop with a
\* fresh buf
AfterWrite(c) ==
    IF closeCon[c] THEN
        /\ Return(c, "close")
        /\ UNCHANGED <<buf, reqNo, reqStart, split>>
    ELSE
        /\ pc' = [pc EXCEPT ![c] = "Reading"]
        /\ buf' = [buf EXCEPT ![c] = <<>>]
        /\ reqNo' = [reqNo EXCEPT ![c] = @ + 1]
        /\ reqStart' = [reqStart EXCEPT ![c] = rd[c]]
        /\ split' = [split EXCEPT ![c] = FALSE]
        /\ UNCHANGED ended

\* stream.write_all(serialize_response(resp)) returned Ok
WriteOk(c) ==
    /\ pc[c] = "Writing"
    /\ out' = [out EXCEPT ![c] =
                 Append(@, [ok |-> TRUE, bytes |-> serialize_response(resp[c])])]
    /\ AfterWrite(c)
    /\ UNCHANGED <<peerVars, rd, parseRes, resp, closeCon, fileVars, faults, zeroReads>>

\* stream.write_all returned Err after some bytes at most: the error is logged
WriteErr(c) ==
    /\ pc[c] = "Writing"
    /\ faults[c] < MaxFaults
    /\ faults' = [faults EXCEPT ![c] = @ + 1]
    /\ \E k \in 0..MaxPartial :
         out' = [out EXCEPT ![c] =
                   Append(@, [ok |-> FALSE,
                              bytes |-> SubSeq(serialize_response(resp[c]), 1, k)])]
    /\ AfterWrite(c)
    /\ UNCHANGED <<peerVars, rd, parseRes, resp, closeCon, fileVars, zeroReads>>

Next ==
    \E c \in Conns :
        \/ Accept(c)
        \/ PeerClose(c)
        \/ ReadHead(c)
        \/ ReadEof(c)
        \/ ReadErr(c)
        \/ DispatchGet(c)
        \/ DispatchPost(c)
        \/ WritePrefix(c)
        \/ DrainRead(c)
        \/ DrainZero(c)
        \/ DrainErr(c)
        \/ WriteOk(c)
        \/ WriteErr(c)

Spec == Init /\ [][Next]_vars

\* Two peers at once.  Connection 1 posts xyz to /files/f; connection 2 posts
\* Pq to the same file, or gets /.  Neither peer closes and the
\* transport does not fail.  The runtime keeps running a task that can go on
\* (connection 2's, whose peer sends its whole request); nothing is assumed of
\* connection 1, which may stop at any point: a peer that stays silent, stops
\* inside its head, or stops inside its body.
DuoInit ==
    /\ scen \in {f \in [Conns -> {21, 23, 24}] : f[1] = 23 /\ f[2] \in {21, 24}}
    /\ InitConn

\* the steps of one connection's task
Serve(c) ==
    \/ Accept(c)
    \/ ReadHead(c)
    \/ DispatchGet(c)
    \/ DispatchPost(c)
    \/ WritePrefix(c)
    \/ DrainRead(c)
    \/ WriteOk(c)

DuoNext == \E c \in Conns : Serve(c)

\* ENABLED <<ReadHead(c)>>_vars: a read can return bytes
CanRead(c) == pc[c] = "Reading" /\ Avail(c) > 0

\* WF_vars(ReadHead(c)), its enabling condition written out
ReadFair(c) == []<>(~CanRead(c)) \/ []<><<ReadHead(c)>>_vars

\* the task of connection c is run whenever it can go on
TaskFair(c) ==
    /\ WF_vars(Accept(c))
    /\ ReadFair(c)
    /\ WF_vars(DispatchGet(c))
    /\ WF_vars(DispatchPost(c))
    /\ WF_vars(WritePrefix(c))
    /\ WF_vars(DrainRead(c))
    /\ WF_vars(WriteOk(c))

DuoSpec == DuoInit /\ [][DuoNext]_vars /\ TaskFair(2)

\* ------------------------------------------------- reading the claims' cases

\* the loop iteration began at the first byte of the script's request number
\* reqNo: every earlier iteration consumed exactly one request
Aligned(c) ==
    /\ reqNo[c] \in 1..Len(Script(scen[c]))
    /\ reqStart[c] = ReqOffset(scen[c], reqNo[c])

\* the scripted request an aligned iteration is reading
CurReq(c) == Script(scen[c])[reqNo[c]]

HeadLen(r) == Len(Wire(r)) - Len(r.b)

\* a request's headers of that name as the client wrote them
SentHeaders(r, name) == SelectSeq(r.h, LAMBDA h : to_ascii_lowercase(h.name) = name)

\* the request's Connection header (the last, if repeated) says close
CarriesClose(r) ==
    LET hs == SentHeaders(r, W_connection)
    IN Len(hs) > 0 /\ to_ascii_lowercase(hs[Len(hs)].value) = W_close

\* a request the server accepts: GET or POST with a well-formed head
WellFormed(r) == parse_request(Wire(r)).tag \in {"Get", "Post"}

\* the lines of a CRLF-terminated text
RECURSIVE SplitCRLF(_)
SplitCRLF(s) ==
    IF s = <<>> THEN <<>>
    ELSE LET i == CHOOSE k \in 1..Len(s) :
                    /\ s[k] = CR /\ k < Len(s) /\ s[k + 1] = LF
                    /\ \A j \in 1..(k - 1) : ~(s[j] = CR /\ s[j + 1] = LF)
         IN <<SubSeq(s, 1, i - 1)>> \o SplitCRLF(SubSeq(s, i + 2, Len(s)))

\* the index of the first byte of the empty line that ends a response head
WireHeadEnd(bytes) ==
    CHOOSE k \in 1..Len(bytes) :
        /\ k + 3 <= Len(bytes)
        /\ SubSeq(bytes, k, k + 3) = CRLF \o CRLF
        /\ \A j \in 1..(k - 1) : SubSeq(bytes, j, j + 3) # CRLF \o CRLF

HasHead(bytes) == \E k \in 1..(Len(bytes) - 3) : SubSeq(bytes, k, k + 3) = CRLF \o CRLF

\* a response as a client reads it off the wire
WireLines(bytes) == SplitCRLF(SubSeq(bytes, 1, WireHeadEnd(bytes) + 1))
WireStatusLine(bytes) == WireLines(bytes)[1]
WireBody(bytes) == SubSeq(bytes, WireHeadEnd(bytes) + 4, Len(bytes))
WireValues(bytes, name) ==
    LET ls == SelectSeq(Tail(WireLines(bytes)),
                        LAMBDA l : starts_with(to_ascii_lowercase(l), name \o <<":", SP>>))
    IN [i \in 1..Len(ls) |-> SubSeq(ls[i], Len(name) + 3, Len(ls[i]))]

StatusLine200 == <<"H", "T", "T", "P", "/", "1", ".", "1", " ", "2", "0", "0", " ", "O", "K">>
StatusLine201 ==
    <<"H", "T", "T", "P", "/", "1", ".", "1", " ", "2", "0", "1", " ",
      "C", "r", "e", "a", "t", "e", "d">>
StatusLine404 ==
    <<"H", "T", "T", "P", "/", "1", ".", "1", " ", "4", "0", "4", " ",
      "N", "o", "t", " ", "F", "o", "u", "n", "d">>

\* the response the current iteration is about to write, as wire bytes
Pending(c) == serialize_response(resp[c])

\* ---------------------------------------------------------------- the claims

\* a returned task touches its stream no more
ClosedStays(c) ==
    pc[c] \in {"Closed", "Panicked"} =>
        /\ pc'[c] = pc[c] /\ rd'[c] = rd[c] /\ out'[c] = out[c] /\ buf'[c] = buf[c]

\* the step that writes the whole response of an aligned request
Answers(c) ==
    /\ pc[c] = "Writing" /\ Aligned(c)
    /\ Len(out'[c]) = Len(out[c]) + 1 /\ Last(out'[c]).ok

C1_Step(c) ==
    Answers(c) =>
        IF CarriesClose(CurReq(c))
        THEN pc'[c] = "Closed" /\ rd'[c] = rd[c]
        ELSE pc'[c] = "Reading" /\ buf'[c] = <<>> /\ reqStart'[c] = rd[c]

C1_Second(c) ==
    (/\ Aligned(c) /\ reqNo[c] >= 2
     /\ WellFormed(CurReq(c))
     /\ Len(buf[c]) >= HeadLen(CurReq(c)))
    => /\ pc[c] # "Reading"
       /\ parseRes[c].path = CurReq(c).p
       /\ parseRes[c].close = CarriesClose(CurReq(c))

\* the scripts whose first request says close, as "close", "Close" under
\* CONNECTION, and on a POST: one response at most, and the task has returned
C1_Closers(c) ==
    (scen[c] \in {2, 4, 11} /\ Len(out[c]) >= 1) =>
        Len(out[c]) = 1 /\ pc[c] = "Closed"

\* C1: an answered request that carried Connection: close (compared without
\* case) ends the task right after its response is written, and no read or
\* write follows on the stream; an answered request that did not sends the loop
\* back to reading with an empty buffer, and a second request the peer sends
\* after the response is read whole and parsed as what the peer sent.
C1_CloseOrKeepAlive ==
    /\ [](\A c \in Conns : C1_Second(c) /\ C1_Closers(c))
    /\ [][\A c \in Conns : C1_Step(c) /\ ClosedStays(c)]_vars

\* a second request, sent after the first response, has been answered too
C1_Witness ==
    /\ scen[1] = 1 /\ Len(out[1]) = 2
    /\ out[1][1].ok /\ out[1][2].ok
    /\ WireBody(out[1][2].bytes) = <<"a", "b">>

C2_Step(c) ==
    (/\ pc[c] = "Reading" /\ buf'[c] # buf[c]
     /\ parse_request(buf'[c]).tag = "Err")
    => pc'[c] = "Closed" /\ out'[c] = out[c]

C2_Unsupported(c) ==
    (/\ Aligned(c)
     /\ CurReq(c).m \notin {W_GET, W_POST}
     /\ Len(buf[c]) >= HeadLen(CurReq(c)))
    => pc[c] = "Closed" /\ Len(out[c]) = reqNo[c] - 1

\* C2: a read after which parse_request fails on the accumulated buffer (an
\* invalid head, a method other than GET and POST) closes the connection and
\* writes nothing for that request, however the bytes were fragmented; the
\* closed connection is never written to afterwards.
C2_ParseFailureCloses ==
    /\ [](\A c \in Conns : C2_Unsupported(c))
    /\ [][\A c \in Conns : C2_Step(c) /\ ClosedStays(c)]_vars

\* DELETE / came in several reads; at its end the connection closed with
\* nothing written
C2_Witness ==
    /\ scen[1] = 8 /\ ended[1] = "parse" /\ pc[1] = "Closed" /\ split[1]
    /\ buf[1] = Stream(8) /\ out[1] = <<>>

\* C3: after a failed write of the response the connection is Closed: no
\* further read or write is attempted, Connection: close or not.
C3_WriteErrorCloses ==
    \A c \in Conns :
        (Len(out[c]) > 0 /\ ~Last(out[c]).ok) => pc[c] = "Closed"

\* C4: a read of 0 bytes while write_file drains a POST body ends write_file
\* with an error and the connection without a response; the drain loop does
\* not go round again without progress.
C4_ShortBodyAborts ==
    \A c \in Conns : zeroReads[c] > 0 => pc[c] = "Closed"

\* POST /files/<name> with one Content-Length header that states the length of
\* the body sent
P_files_slash == <<"/", "f", "i", "l", "e", "s", "/">>
GoodPost(r) ==
    /\ r.m = W_POST
    /\ starts_with(r.p, P_files_slash) /\ Len(r.p) > Len(P_files_slash)
    /\ LET cl == SentHeaders(r, W_content_length)
       IN Len(cl) = 1 /\ ParseUsize(cl[1].value).ok
          /\ ParseUsize(cl[1].value).v = Len(r.b)

\* the file a /files/<name> path names, relative to the base directory
FileOf(path) == SubSeq(path, Len(P_files_slash), Len(path))

\* the iteration has consumed exactly the bytes of its request
ConsumedExactly(c) == rd[c] = reqStart[c] + Len(Wire(CurReq(c)))

C5_Post(c) ==
    (Aligned(c) /\ GoodPost(CurReq(c))) =>
        /\ (pc[c] = "Writing" =>
              /\ WireStatusLine(Pending(c)) = StatusLine201
              /\ WireBody(Pending(c)) = <<>>
              /\ ConsumedExactly(c)
              /\ FileOf(CurReq(c).p) \in DOMAIN files
              /\ files[FileOf(CurReq(c).p)] = CurReq(c).b)
        /\ (ConsumedExactly(c) =>
              pc[c] \in {"Dispatching", "Prefixing", "Writing", "Closed"})

C5_Get(c) ==
    (/\ Aligned(c) /\ reqNo[c] >= 2
     /\ GoodPost(Script(scen[c])[reqNo[c] - 1])
     /\ CurReq(c).m = W_GET
     /\ CurReq(c).p = Script(scen[c])[reqNo[c] - 1].p
     /\ pc[c] = "Writing")
    => /\ WireStatusLine(Pending(c)) = StatusLine200
       /\ WireBody(Pending(c)) = Script(scen[c])[reqNo[c] - 1].b

C6_PostFails(c) ==
    (/\ pc[c] \in {"Dispatching", "Prefixing", "Draining"} /\ parseRes[c].tag = "Post"
     /\ pc'[c] \notin {"Dispatching", "Prefixing", "Draining", "Writing"})
    => pc'[c] \in {"Closed", "Panicked"} /\ out'[c] = out[c]

C6_PostToDirectory(c) ==
    (/\ Aligned(c) /\ CurReq(c).m = W_POST /\ CurReq(c).p = P_files_slash
     /\ Len(buf[c]) >= HeadLen(CurReq(c)))
    => pc[c] \in {"Dispatching", "Closed"} /\ Len(out[c]) = reqNo[c] - 1

C6_GetFails(c) ==
    (/\ pc[c] = "Dispatching" /\ parseRes[c].tag = "Get"
     /\ starts_with(to_ascii_lowercase(parseRes[c].path), P_files_slash)
     /\ (FileOf(parseRes[c].path) \notin DOMAIN files
           \/ parseRes[c].path = P_files_slash)
     /\ pc'[c] # "Dispatching")
    => /\ pc'[c] = "Writing"
       /\ WireStatusLine(serialize_response(resp'[c])) = StatusLine404
       /\ WireBody(serialize_response(resp'[c])) = <<>>

C6_StaysOpen(c) ==
    (Answers(c) /\ resp[c].status = 404) =>
        (pc'[c] = "Reading") = ~CarriesClose(CurReq(c))

\* C6: a failure of write_file during a POST ends the connection with no
\* response bytes written; a failure of read_file during GET /files/<name>
\* (no such file, or not a readable file) is answered 404 with an empty body,
\* and the connection goes on to the next request unless Connection: close
\* was set.
C6_HandlerFailures ==
    /\ [](\A c \in Conns : C6_PostToDirectory(c))
    /\ [][\A c \in Conns : C6_PostFails(c) /\ C6_GetFails(c) /\ C6_StaysOpen(c)]_vars

\* a missing file was answered 404, the connection stayed open, and the next
\* request, for the directory and with Connection: close, was answered 404 too
C6_Witness ==
    /\ scen[1] = 7 /\ Len(out[1]) = 2 /\ out[1][1].ok /\ out[1][2].ok
    /\ WireStatusLine(out[1][1].bytes) = StatusLine404
    /\ WireStatusLine(out[1][2].bytes) = StatusLine404
    /\ pc[1] = "Closed" /\ ended[1] = "close"

\* C7: every response written whole carries exactly one Content-Length
\* header, and its value is the number of body bytes after the empty line.
C7_ContentLengthExact ==
    \A c \in Conns : \A i \in 1..Len(out[c]) :
        out[c][i].ok =>
            LET bytes == out[c][i].bytes
                cl == WireValues(bytes, W_content_length)
            IN /\ HasHead(bytes)
               /\ Len(cl) = 1
               /\ ParseUsize(cl[1]).ok
               /\ ParseUsize(cl[1]).v = Len(WireBody(bytes))

\* a 200 with a body of three bytes went out after a 201
C7_Witness ==
    /\ Len(out[1]) = 2 /\ out[1][1].ok /\ out[1][2].ok
    /\ WireStatusLine(out[1][1].bytes) = StatusLine201
    /\ WireValues(out[1][2].bytes, W_content_length) = << <<"3">> >>
    /\ Len(WireBody(out[1][2].bytes)) = 3

\* C8: request N+1 is parsed and dispatched only after the response to
\* request N has been written whole.
C8_OneAtATime ==
    \A c \in Conns :
        pc[c] \in {"Dispatching", "Prefixing", "Draining", "Writing"} =>
            /\ Len(out[c]) = reqNo[c] - 1
            /\ \A i \in 1..Len(out[c]) : out[c][i].ok

\* the last value of a request's header, NoValue when it has none
SentValue(r, name) ==
    LET hs == SentHeaders(r, name)
    IN IF Len(hs) = 0 THEN NoValue ELSE Some(hs[Len(hs)].value)

\* the parse result the request's sender expects
C9_Expected(r, res) ==
    /\ res.path = r.p
    /\ res.close = CarriesClose(r)
    /\ IF r.m = W_GET
       THEN /\ res.tag = "Get"
            /\ res.ua = SentValue(r, W_user_agent)
            /\ res.encoding.some =
                 (/\ SentValue(r, W_accept_encoding).some
                  /\ contains(to_ascii_lowercase(SentValue(r, W_accept_encoding).v), W_gzip))
       ELSE /\ res.tag = "Post"
            /\ res.body_offset = HeadLen(r)
            /\ res.body_len = IF SentValue(r, W_content_length).some
                              THEN ParseUsize(SentValue(r, W_content_length).v).v
                              ELSE 0

\* three heads as parsed: User-Agent: f/1, Accept-Encoding: x,GZip and
\* CONNECTION: Close
C9_Heads(c) ==
    (reqNo[c] = 1 /\ pc[c] = "Dispatching") =>
        /\ (scen[c] = 5 => parseRes[c].ua = Some(V_agent))
        /\ (scen[c] = 3 => parseRes[c].encoding = Some("Gzip") /\ ~parseRes[c].close)
        /\ (scen[c] = 4 => parseRes[c].close /\ ~parseRes[c].encoding.some)

\* C9: while the bytes of a well-formed request arrive in any fragments, the
\* read/parse loop gets Ok(None) until the head is complete, and then the
\* parse result of the whole request read at once: method, path, close flag,
\* user-agent, encoding, body offset and body length.
C9_FragmentationInvariance ==
    \A c \in Conns :
      /\ C9_Heads(c)
      /\ (Aligned(c) /\ WellFormed(CurReq(c))) =>
            /\ ended[c] # "parse"
            /\ (pc[c] = "Reading" =>
                  /\ Len(buf[c]) < HeadLen(CurReq(c))
                  /\ parse_request(buf[c]).tag = "None")
            /\ (pc[c] \in {"Dispatching", "Prefixing", "Draining", "Writing"} =>
                  /\ Len(buf[c]) >= HeadLen(CurReq(c))
                  /\ parseRes[c] = parse_request(Wire(CurReq(c)))
                  /\ C9_Expected(CurReq(c), parseRes[c]))

\* the POST's head came in several reads, the last of them with one body byte
C9_Witness ==
    /\ scen[1] = 6 /\ pc[1] = "Dispatching" /\ reqNo[1] = 1 /\ split[1]
    /\ Len(buf[1]) = HeadLen(Script(6)[1]) + 1
    /\ parseRes[1].body_len = 3

P_echo_slash == <<"/", "e", "c", "h", "o", "/">>
EchoGet(r) == r.m = W_GET /\ starts_with(to_ascii_lowercase(r.p), P_echo_slash)
EchoAnswer(r, bytes) ==
    /\ WireStatusLine(bytes) = StatusLine200
    /\ WireValues(bytes, W_content_type) = <<W_text_plain>>
    /\ WireBody(bytes) = SubSeq(r.p, Len(P_echo_slash) + 1, Len(r.p))

\* C10: a GET of /echo/<s>, the prefix in any case, is answered 200 with
\* Content-Type text/plain and the bytes of <s> as the body, further slashes
\* and the empty string included.
C10_Echo ==
    \A c \in Conns :
        /\ (Aligned(c) /\ EchoGet(CurReq(c))) =>
              /\ ended[c] # "panic"
              /\ (pc[c] = "Writing" => EchoAnswer(CurReq(c), Pending(c)))
        /\ (/\ scen[c] # 0 /\ EchoGet(Script(scen[c])[1])
            /\ Len(out[c]) >= 1 /\ out[c][1].ok)
           => EchoAnswer(Script(scen[c])[1], out[c][1].bytes)

\* GET /ECHO/a/b was answered with the body a/b
C10_Witness ==
    /\ scen[1] = 3 /\ Len(out[1]) = 1 /\ out[1][1].ok
    /\ WireBody(out[1][1].bytes) = <<"a", "/", "b">>

\* the five routes: GET /, GET /echo/<rest>, GET /user-agent, GET /files/<name>
\* and POST /files/<name>, the letters of the path in any case
ListedRoute(r) ==
    LET p == to_ascii_lowercase(r.p) IN
    \/ /\ r.m = W_GET
       /\ \/ r.p = P_root
          \/ starts_with(p, P_echo_slash)
          \/ p = P_user_agent
          \/ starts_with(p, P_files_slash)
    \/ r.m = W_POST /\ starts_with(p, P_files_slash)

\* C11: a parsed request outside the five routes is answered 404 with an empty
\* body: a POST outside /files/ creates no file, and a GET of a path that has
\* the letters of /echo or /files without the slash after them gets no 200.
C11_OtherIs404 ==
    \A c \in Conns :
        (Aligned(c) /\ WellFormed(CurReq(c)) /\ ~ListedRoute(CurReq(c))) =>
            /\ (pc[c] = "Writing" =>
                  /\ WireStatusLine(Pending(c)) = StatusLine404
                  /\ WireBody(Pending(c)) = <<>>)
            /\ (reqNo[c] = 1 => files = <<>>)

\* the request asks for gzip: its last Accept-Encoding value has the letters
\* gzip in it, in any case
Negotiated(r) ==
    /\ SentValue(r, W_accept_encoding).some
    /\ contains(to_ascii_lowercase(SentValue(r, W_accept_encoding).v), W_gzip)

\* the response the Get arm would build had the request named no encoding
Unencoded(c) ==
    serialize_response(RouteGet(files, [parseRes[c] EXCEPT !.encoding = NoValue]).resp)

C12_Pending(c) ==
    (pc[c] = "Writing" /\ Aligned(c)) =>
        LET bytes == Pending(c)
            r == CurReq(c)
        IN /\ WireValues(bytes, W_content_encoding) # <<>> =>
                /\ WireValues(bytes, W_content_encoding) = <<W_gzip>>
                /\ r.m = W_GET /\ Negotiated(r)
                /\ WireStatusLine(bytes) = StatusLine200
                /\ ~starts_with(to_ascii_lowercase(r.p), P_files)
           /\ r.m = W_GET =>
                /\ WireBody(bytes) = WireBody(Unencoded(c))
                /\ WireValues(bytes, W_content_length)
                     = WireValues(Unencoded(c), W_content_length)

C12_Written(c) ==
    \A i \in 1..Len(out[c]) :
        (out[c][i].ok /\ WireValues(out[c][i].bytes, W_content_encoding) # <<>>) =>
            /\ WireStatusLine(out[c][i].bytes) = StatusLine200
            /\ WireValues(out[c][i].bytes, W_content_type) = <<W_text_plain>>

\* C12: a response carries Content-Encoding: gzip only if the request's last
\* Accept-Encoding value contains gzip, compared without case; its body and
\* Content-Length are those of the same response without the header; a 201, a
\* 404 and the answer to GET /files/... never carry it.
C12_GzipOnlyNegotiated == \A c \in Conns : C12_Pending(c) /\ C12_Written(c)

\* Accept-Encoding: x,GZip was answered with Content-Encoding: gzip and the
\* three bytes a/b as they are
C12_Witness ==
    /\ scen[1] = 3 /\ Len(out[1]) = 1 /\ out[1][1].ok
    /\ WireValues(out[1][1].bytes, W_content_encoding) = <<W_gzip>>
    /\ WireValues(out[1][1].bytes, W_content_length) = << <<"3">> >>
    /\ WireBody(out[1][1].bytes) = <<"a", "/", "b">>

\* a POST whose head scans but states no usable length: no Content-Length
\* header, or a last one that is not a non-negative decimal number
LacksLength(r) ==
    /\ r.m = W_POST
    /\ ParseHead(Wire(r)).status = "Complete"
    /\ LET cl == SentHeaders(r, W_content_length)
       IN Len(cl) = 0 \/ ~ParseUsize(Last(cl).value).ok

\* C13: a POST with no Content-Length header, or with one whose value is not
\* a non-negative integer, is parsed as a Post with body_len = 0 and is
\* dispatched.
C13_NoLengthIsZero ==
    \A c \in Conns :
        (Aligned(c) /\ LacksLength(CurReq(c)) /\ Len(buf[c]) >= HeadLen(CurReq(c))) =>
            /\ ended[c] # "parse"
            /\ pc[c] # "Reading"
            /\ (pc[c] \in {"Dispatching", "Prefixing", "Draining", "Writing"} =>
                  parseRes[c].tag = "Post" /\ parseRes[c].body_len = 0)

\* the connection's one request was answered 201
Answered201(c) ==
    /\ Len(out[c]) = 1 /\ out[c][1].ok
    /\ WireStatusLine(out[c][1].bytes) = StatusLine201

\* both connections post to /files/f
BothPost == scen[1] = 23 /\ scen[2] = 21
TheFile == files[<<"/", "f">>]
BodyOf(c) == Script(scen[c])[1].b

NotYetCreated(d) == out[d] = <<>> /\ pc[d] \in {"Unaccepted", "Reading", "Dispatching"}

C15_Step(c) ==
    (pc[c] = "Reading" /\ pc'[c] # "Reading" /\ buf'[c] = buf[c]) =>
        /\ pc'[c] = "Closed" /\ ended'[c] \in {"eof", "readerr"}
        /\ out'[c] = out[c] /\ rd'[c] = rd[c]

C15_Ended(c) ==
    ended[c] \in {"eof", "readerr"} =>
        /\ pc[c] = "Closed"
        /\ Len(out[c]) = reqNo[c] - 1

\* C15: a read of 0 bytes or a read error while the connection waits for a
\* request head, or has part of one, closes the connection with no response
\* written for that request; a closed connection is never read or written
\* again.
C15_ReadFailureCloses ==
    /\ [](\A c \in Conns : C15_Ended(c))
    /\ [][\A c \in Conns : C15_Step(c) /\ ClosedStays(c)]_vars

\* after one response, part of the second head had come when the read
\* returned 0: closed with the one response only
C15_Witness ==
    /\ scen[1] = 1 /\ ended[1] = "eof" /\ pc[1] = "Closed"
    /\ reqNo[1] = 2 /\ Len(out[1]) = 1 /\ out[1][1].ok
    /\ buf[1] # <<>> /\ parse_request(buf[1]).tag = "None"

\* the connection's first request was answered in full
Answered(c) == Len(out[c]) >= 1 /\ out[c][1].ok

\* the handler of connection c stands still for want of bytes: nothing read
\* yet, part of a head read, or part of a body read
Stalled(c) ==
    \/ pc[c] = "Reading" /\ Len(buf[c]) < HeadLen(Script(scen[c])[1])
    \/ pc[c] = "Draining" /\ remaining[c] > 0

\* C16: run spawns a task per accepted connection and goes back to accept
\* without waiting for it: whatever connection 1 does, and wherever it stops
\* (silent, inside its head, inside its POST body), connection 2 can be
\* accepted as soon as it is there, and it is accepted, parsed and answered.
C16_AcceptorNeverWaits ==
    /\ [](\A c \in Conns : (pc[c] = "Unaccepted" /\ scen[c] # 0) => ENABLED Accept(c))
    /\ <>Answered(2)

\* connection 1 is inside its POST body, with nothing answered, and
\* connection 2, accepted after it, has its response
C16_Witness ==
    /\ pc[1] = "Draining" /\ remaining[1] > 0 /\ out[1] = <<>> /\ Stalled(1)
    /\ Answered(2) /\ WireStatusLine(out[2][1].bytes) = StatusLine200

\* the peer's script is GET requests only, none of them with Connection: close
AllGets(s) ==
    /\ Len(Script(s)) >= 1
    /\ \A i \in 1..Len(Script(s)) :
          /\ Script(s)[i].m = W_GET /\ WellFormed(Script(s)[i])
          /\ ~CarriesClose(Script(s)[i])

\* C17: k well-formed GET requests without Connection: close on one
\* connection get exactly k responses, however their bytes are grouped into
\* reads, a read that holds the end of one request and the start of the next
\* included: none of them is taken for a malformed request, and once all the
\* bytes are read and the server waits for more, k responses are out.
C17_OnePerRequest ==
    \A c \in Conns :
        (scen[c] # 0 /\ AllGets(scen[c]) /\ faults[c] = 0) =>
            /\ ended[c] # "parse"
            /\ Len(out[c]) <= Len(Script(scen[c]))
            /\ (/\ pc[c] = "Reading" /\ buf[c] = <<>>
                /\ rd[c] = Len(Stream(scen[c])))
               => Len(out[c]) = Len(Script(scen[c]))

\* the arm that handles the parsed request takes &path[6..]: the echo arm,
\* the GET files arm, and the Post arm for every path
TakesSlice(req) ==
    \/ req.tag = "Post"
    \/ /\ req.tag = "Get" /\ req.path # P_root
       /\ \/ starts_with(to_ascii_lowercase(req.path), P_echo)
          \/ /\ to_ascii_lowercase(req.path) # P_user_agent
             /\ starts_with(to_ascii_lowercase(req.path), P_files)

\* C18: every request parse_request accepts is dispatched without a crash of
\* the task: where the echo, GET files and Post arms take path[6..] the path
\* has six bytes at least, /echo and POST / included.
C18_SliceInBounds ==
    \A c \in Conns :
        (pc[c] = "Dispatching" /\ TakesSlice(parseRes[c])) => CanSlice6(parseRes[c].path)

\* C19: for every POST that reaches write_file the body bytes already in the
\* buffer are no more than the declared Content-Length, so that
\* content_len - content_prefix.len() does not underflow, and the file never
\* gets more than Content-Length bytes; bytes of a following request read
\* with the POST included.
C19_PrefixWithinLength ==
    \A c \in Conns :
        /\ remaining[c] >= 0
        /\ (pc[c] # "Unaccepted" /\ parseRes[c].tag = "Post") =>
              /\ (pc[c] \in {"Dispatching", "Prefixing"} =>
                    Len(ContentPrefix(c)) <= parseRes[c].body_len)
              /\ (pc[c] \in {"Draining", "Writing"} => fpos[c] <= parseRes[c].body_len)

\* the bytes the drain loop has taken off the stream for the current POST
Drained(c) == rd[c] - reqStart[c] - Len(buf[c])

C20_Within(c) ==
    (pc[c] \in {"Draining", "Writing"} /\ parseRes[c].tag = "Post") =>
        /\ pc[c] = "Draining" => remaining[c] # 0
        /\ Drained(c) > 0 =>
              /\ Len(ContentPrefix(c)) + Drained(c) <= parseRes[c].body_len
              /\ remaining[c] = parseRes[c].body_len - Len(ContentPrefix(c)) - Drained(c)
        /\ pc[c] = "Writing" => remaining[c] = 0

\* C20: the drain loop asks for min(remaining, 65536) bytes at most, takes
\* the bytes read off the remaining count, and stops at zero, so it never
\* takes bytes beyond the declared Content-Length off the stream: the bytes of
\* a following request stay there for the next iteration.
C20_DrainWithinLength == \A c \in Conns : C20_Within(c)

====
